---- MODULE Spec2Model ----
(***************************************************************************)
(* Formula dependency and structural analysis of a workbook, as done by    *)
(* ExcelContextExtractor (excel_to_code/extractors/context_extractor.py;   *)
(* excel_parser/extractors/excel_parser.py holds the same methods).        *)
(*                                                                         *)
(* Text is a sequence of one-character strings, so that the regular        *)
(* expressions of the source are modelled by what they match.              *)
(***************************************************************************)
EXTENDS Integers, Sequences, FiniteSets, TLC

VARIABLES
    workbook,   \* self.workbook, its cells in iteration order: <<>> until loaded
    context,    \* self.context
    building,   \* the dict literal extract_all is evaluating
    pc,         \* the entry of the dict literal extract_all evaluates next
    visited,    \* visited of _determine_calculation_order
    order,      \* order of _determine_calculation_order
    stack,      \* the frames of visit() that are being executed
    keyIdx,     \* position of "for cell in dependencies.keys()"
    graph,      \* the local "dependencies" of _determine_calculation_order
    hashOrder,  \* the order in which this process lists a set of strings
    calls,      \* the number of calls of extract_all made so far
    process,    \* the number of the interpreter process that is running
    returned    \* what the calls of extract_all returned to their callers

vars == <<workbook, context, building, pc, visited, order, stack, keyIdx,
          graph, hashOrder, calls, process, returned>>

(***************************************************************************)
(* Characters and the character classes of Python's re module.             *)
(***************************************************************************)
Upper == {"A", "B", "C", "D", "E", "F", "G", "H", "I", "J", "K", "L", "M",
          "N", "O", "P", "Q", "R", "S", "T", "U", "V", "W", "X", "Y", "Z"}

Lower == {"a", "b", "c", "d", "e", "f", "g", "h", "i", "j", "k", "l", "m",
          "n", "o", "p", "q", "r", "s", "t", "u", "v", "w", "x", "y", "z"}

Digit == {"0", "1", "2", "3", "4", "5", "6", "7", "8", "9"}

\* \w
Word == Upper \cup Lower \cup Digit \cup {"_"}

\* s[i] is a character of class C
At(s, i, C) == i >= 1 /\ i <= Len(s) /\ s[i] \in C

\* \b at the position just before s[p] (p in 1..Len(s)+1)
WordBoundary(s, p) == At(s, p - 1, Word) # At(s, p, Word)

\* The position after the longest run of characters of class C that starts
\* at s[i] (i itself when s[i] is not in C): a greedy C* from i.
RunEnd(s, i, C) ==
    IF ~At(s, i, C) THEN i
    ELSE CHOOSE k \in (i + 1)..(Len(s) + 1) :
             ~At(s, k, C) /\ \A m \in i..(k - 1) : At(s, m, C)

\* The first position >= i that holds character c, or 0.
IndexOf(s, c, i) ==
    LET at == {k \in i..Len(s) : s[k] = c}
    IN  IF at = {} THEN 0 ELSE CHOOSE k \in at : \A m \in at : k <= m

\* The first of the positions where a pattern matches, or 0 when it matches
\* at none.
NextMatch(at) ==
    IF at = {} THEN 0 ELSE CHOOSE q \in at : \A r \in at : q <= r

\* s[a..b-1]
Slice(s, a, b) == SubSeq(s, a, b - 1)

\* t occurs in s at position i
OccursAt(s, t, i) ==
    /\ i >= 1
    /\ i + Len(t) - 1 <= Len(s)
    /\ \A k \in 1..Len(t) : s[i + k - 1] = t[k]

\* Python's "t in s" for strings
IsSubstring(t, s) == \E i \in 1..(Len(s) + 1) : OccursAt(s, t, i)

\* Python's "x in list"
InList(x, l) == \E i \in 1..Len(l) : l[i] = x

ListToSet(l) == {l[i] : i \in 1..Len(l)}

(***************************************************************************)
(* [A-Z]+\d+ matched at s[p]: the position after the match, or 0.  Both    *)
(* quantifiers are greedy and what may follow them (a \b, a ':', a '!' or   *)
(* nothing) never matches after a shorter run, so only the longest runs    *)
(* can match.                                                              *)
(***************************************************************************)
CoordEnd(s, p) ==
    LET j == RunEnd(s, p, Upper)
        k == RunEnd(s, j, Digit)
    IN  IF j > p /\ k > j THEN k ELSE 0

\* [A-Z]+\d+(?::[A-Z]+\d+)? matched at s[p]: the position after it, or 0.
CoordOrRangeEnd(s, p) ==
    LET k  == CoordEnd(s, p)
        k2 == IF k > 0 /\ At(s, k, {":"}) THEN CoordEnd(s, k + 1) ELSE 0
    IN  IF k2 > 0 THEN k2 ELSE k

\* pattern1 = r'\b([A-Z]+\d+)\b' matched at s[p]: the position after, or 0.
Pattern1End(s, p) ==
    LET k == CoordEnd(s, p)
    IN  IF WordBoundary(s, p) /\ k > 0 /\ WordBoundary(s, k) THEN k ELSE 0

\* pattern2 = r'\b([A-Z]+\d+:[A-Z]+\d+)\b' matched at s[p].
Pattern2End(s, p) ==
    LET k  == CoordEnd(s, p)
        k2 == IF k > 0 /\ At(s, k, {":"}) THEN CoordEnd(s, k + 1) ELSE 0
    IN  IF WordBoundary(s, p) /\ k2 > 0 /\ WordBoundary(s, k2) THEN k2 ELSE 0

\* pattern3 = r"('[^']+?'|[A-Z]\w*)!([A-Z]+\d+(?::[A-Z]+\d+)?)" matched at
\* s[p]: the position of the '!' (0 when the sheet part does not match).
Pattern3Bang(s, p) ==
    IF At(s, p, {"'"}) THEN
        LET q == IndexOf(s, "'", p + 1)
        IN  IF q >= p + 2 /\ At(s, q + 1, {"!"}) THEN q + 1 ELSE 0
    ELSE IF At(s, p, Upper) THEN
        LET e == RunEnd(s, p + 1, Word)
        IN  IF At(s, e, {"!"}) THEN e ELSE 0
    ELSE 0

Pattern3End(s, p) ==
    LET b == Pattern3Bang(s, p)
    IN  IF b > 0 THEN CoordOrRangeEnd(s, b + 1) ELSE 0

\* f"{match.group(1)}!{match.group(2)}" of a pattern3 match at s[p]: the
\* matched text itself, quotes included.
Pattern3Ref(s, p) == Slice(s, p, Pattern3End(s, p))

\* re.finditer: the matched texts, left to right, not overlapping.
RECURSIVE FindAll3(_, _)
FindAll3(s, p) ==
    LET q == NextMatch({i \in p..Len(s) : Pattern3End(s, i) > 0})
    IN  IF q = 0 THEN <<>>
        ELSE <<Pattern3Ref(s, q)>> \o FindAll3(s, Pattern3End(s, q))

RECURSIVE FindAll2(_, _)
FindAll2(s, p) ==
    LET q == NextMatch({i \in p..Len(s) : Pattern2End(s, i) > 0})
    IN  IF q = 0 THEN <<>>
        ELSE <<Slice(s, q, Pattern2End(s, q))>> \o FindAll2(s, Pattern2End(s, q))

RECURSIVE FindAll1(_, _)
FindAll1(s, p) ==
    LET q == NextMatch({i \in p..Len(s) : Pattern1End(s, i) > 0})
    IN  IF q = 0 THEN <<>>
        ELSE <<Slice(s, q, Pattern1End(s, q))>> \o FindAll1(s, Pattern1End(s, q))

\* The loop over the pattern1 matches: a match is appended unless it is a
\* substring of a reference collected so far.
RECURSIVE AddSingles(_, _)
AddSingles(references, matches) ==
    IF matches = <<>> THEN references
    ELSE LET ref == Head(matches)
         IN  IF ~InList(ref, references)
                /\ ~(\E i \in 1..Len(references) : IsSubstring(ref, references[i]))
             THEN AddSingles(Append(references, ref), Tail(matches))
             ELSE AddSingles(references, Tail(matches))

\* Mutant of ReferenceList: every match of pattern1 is a reference, the
\* endpoints of a range too.
ReferenceListAllSingles(formula) ==
    FindAll3(formula, 1) \o FindAll2(formula, 1) \o FindAll1(formula, 1)

\* references of _extract_cell_references before "list(set(references))"
ReferenceList(formula) ==
    AddSingles(FindAll3(formula, 1) \o FindAll2(formula, 1), FindAll1(formula, 1))

\* set(references)
ReferenceSet(formula) == ListToSet(ReferenceList(formula))

\* The lists that hold the elements of set S once each: what list(S) may be.
ListsOfSet(S) ==
    {p \in [1..Cardinality(S) -> S] : \A i, j \in 1..Cardinality(S) : p[i] = p[j] => i = j}

(***************************************************************************)
(* int(text) and str(int), digit by digit.                                 *)
(***************************************************************************)
DigitChars == <<"0", "1", "2", "3", "4", "5", "6", "7", "8", "9">>

DigitValue(c) == (CHOOSE d \in 1..10 : DigitChars[d] = c) - 1

RECURSIVE ParseInt(_)
ParseInt(t) ==
    IF t = <<>> THEN 0
    ELSE 10 * ParseInt(SubSeq(t, 1, Len(t) - 1)) + DigitValue(t[Len(t)])

RECURSIVE IntToText(_)
IntToText(n) ==
    IF n < 10 THEN <<DigitChars[n + 1]>>
    ELSE IntToText(n \div 10) \o <<DigitChars[(n % 10) + 1]>>

(***************************************************************************)
(* The workbook.  A cell is [sheet, coordinate, value]; a value is None, a *)
(* number or a string.  The cells come sheet by sheet in sheetnames order, *)
(* and row by row inside a sheet, as ws.iter_rows() yields them.           *)
(***************************************************************************)
None == [t |-> "none", n |-> 0, s |-> <<>>]

Number(k) == [t |-> "int", n |-> k, s |-> <<>>]

String(text) == [t |-> "str", n |-> 0, s |-> text]

\* isinstance(value, str) and value.startswith('=')
IsFormulaValue(v) == v.t = "str" /\ At(v.s, 1, {"="})

\* f"{sheet_name}!{cell.coordinate}"
CellRef(cell) == cell.sheet \o <<"!">> \o cell.coordinate

_get_cell_type(v) ==
    IF v.t = "none" THEN "empty"
    ELSE IF v.t = "int" THEN "number"
    ELSE IF IsFormulaValue(v) THEN "formula"
    ELSE "string"

\* An insertion-ordered dict is the sequence of its entries; every entry
\* has a field "key".
\* The position of key k in dict d, or 0.
KeyIndex(d, k) ==
    LET at == {i \in 1..Len(d) : d[i].key = k}
    IN  IF at = {} THEN 0 ELSE CHOOSE i \in at : TRUE

HasKey(d, k) == KeyIndex(d, k) > 0

Keys(d) == [i \in 1..Len(d) |-> d[i].key]

\* d[entry.key] = entry: the entry replaces the one of that key, in place,
\* or is added at the end.
Put(d, entry) ==
    IF HasKey(d, entry.key)
    THEN [d EXCEPT ![KeyIndex(d, entry.key)] = entry]
    ELSE Append(d, entry)

RECURSIVE _extract_cell_values(_)
_extract_cell_values(cells) ==
    IF cells = <<>> THEN <<>>
    ELSE LET cell == cells[Len(cells)]
             rest == _extract_cell_values(SubSeq(cells, 1, Len(cells) - 1))
             is_formula == IsFormulaValue(cell.value)
         IN  IF cell.value.t # "none"
             THEN Put(rest, [key        |-> CellRef(cell),
                             value      |-> IF is_formula THEN None ELSE cell.value,
                             type       |-> _get_cell_type(cell.value),
                             is_input   |-> ~is_formula,
                             is_formula |-> is_formula])
             ELSE rest

\* The formula texts of the cells.
FormulaTexts(cells) ==
    {cells[i].value.s : i \in {j \in 1..Len(cells) : IsFormulaValue(cells[j].value)}}

\* list(set(references)) lists the set in an order that depends on the
\* hashes of the strings, which differ from process to process.  Within one
\* process it is a function of the formula: a hash order maps every formula
\* text to one of the lists of its reference set.
RECURSIVE HashOrders(_)
HashOrders(texts) ==
    IF texts = {} THEN {[x \in {} |-> <<>>]}
    ELSE LET t == CHOOSE x \in texts : TRUE
         IN  {[x \in texts |-> IF x = t THEN p ELSE r[x]] :
                 p \in ListsOfSet(ReferenceSet(t)), r \in HashOrders(texts \ {t})}

\* Mutant of _extract_cell_references: "return references", the list as
\* collected, a reference once for each of its matches.
ReferencesAsCollected(formula, h) == ReferenceList(formula)

\* _extract_cell_references(formula) under hash order h
_extract_cell_references(formula, h) == h[formula]

(***************************************************************************)
(* _extract_functions and _assess_formula_complexity                       *)
(***************************************************************************)
\* [A-Z0-9_.]
NameChar == Upper \cup Digit \cup {"_", "."}

\* \s (the vertical tab, which has no TLA+ escape, is left out)
Space == {" ", "\t", "\n", "\r", "\f"}

\* r'\b([A-Z][A-Z0-9_.]*)\s*\(' matched at s[p]: the position after the
\* name (group 1), or 0.  A shorter name cannot match: what follows it is a
\* name character, neither a space nor the parenthesis.
FunctionNameEnd(s, p) ==
    LET j == RunEnd(s, p + 1, NameChar)
        k == RunEnd(s, j, Space)
    IN  IF WordBoundary(s, p) /\ At(s, p, Upper) /\ At(s, k, {"("}) THEN j ELSE 0

\* re.findall: the names, left to right; the scan resumes after the '('.
RECURSIVE FindFunctions(_, _)
FindFunctions(s, p) ==
    LET q == NextMatch({i \in p..Len(s) : FunctionNameEnd(s, i) > 0})
    IN  IF q = 0 THEN <<>>
        ELSE <<Slice(s, q, FunctionNameEnd(s, q))>>
                 \o FindFunctions(s, RunEnd(s, FunctionNameEnd(s, q), Space) + 1)

\* list(set(functions)): kept as the set the list holds, each name once; the
\* analysis reads only its length.
_extract_functions(formula) == ListToSet(FindFunctions(formula, 1))

\* formula.count('(')
CountOf(s, c) == Cardinality({i \in 1..Len(s) : s[i] = c})

\* Mutant of _assess_formula_complexity: the thresholds compared with >=.
AssessInclusive(formula) ==
    LET length        == Len(formula)
        func_count    == Cardinality(_extract_functions(formula))
        nesting_level == CountOf(formula, "(")
    IN  IF length >= 200 \/ func_count >= 5 \/ nesting_level >= 5 THEN "high"
        ELSE IF length >= 100 \/ func_count >= 3 \/ nesting_level >= 3 THEN "medium"
        ELSE "low"

_assess_formula_complexity(formula) ==
    LET length        == Len(formula)
        func_count    == Cardinality(_extract_functions(formula))
        nesting_level == CountOf(formula, "(")
    IN  IF length > 200 \/ func_count > 5 \/ nesting_level > 5 THEN "high"
        ELSE IF length > 100 \/ func_count > 3 \/ nesting_level > 3 THEN "medium"
        ELSE "low"

RECURSIVE _extract_cell_formulas(_, _)
_extract_cell_formulas(cells, h) ==
    IF cells = <<>> THEN <<>>
    ELSE LET cell == cells[Len(cells)]
             rest == _extract_cell_formulas(SubSeq(cells, 1, Len(cells) - 1), h)
         IN  IF IsFormulaValue(cell.value)
             THEN Put(rest, [key         |-> CellRef(cell),
                             raw_formula |-> cell.value.s,
                             depends_on  |-> _extract_cell_references(cell.value.s, h),
                             used_functions |-> _extract_functions(cell.value.s),
                             complexity  |-> _assess_formula_complexity(cell.value.s),
                             length      |-> Len(cell.value.s)])
             ELSE rest

(***************************************************************************)
(* _analyze_dependencies                                                   *)
(***************************************************************************)
\* cell_ref.split('!')[0]
SheetOf(cell_ref) ==
    IF IndexOf(cell_ref, "!", 1) = 0 THEN cell_ref
    ELSE Slice(cell_ref, 1, IndexOf(cell_ref, "!", 1))

\* "if '!' not in dep: dep = f'{sheet}!{dep}'"
Normalize(sheet, dep) ==
    IF IndexOf(dep, "!", 1) = 0 THEN sheet \o <<"!">> \o dep ELSE dep

NormalizedDeps(cell_ref, depends_on) ==
    [i \in 1..Len(depends_on) |-> Normalize(SheetOf(cell_ref), depends_on[i])]

\* dependencies[k]: the entry of k, which the defaultdict makes on first use
Entry(dependencies, k) ==
    IF HasKey(dependencies, k) THEN dependencies[KeyIndex(dependencies, k)]
    ELSE [key |-> k, direct_depends |-> <<>>, depended_by |-> <<>>]

\* Mutant of SetDirectDepends: a formula without references gets no entry
\* ("if normalized_deps:").
SetDirectDependsIfAny(dependencies, cell_ref, normalized_deps) ==
    IF normalized_deps = <<>> THEN dependencies
    ELSE Put(dependencies, [Entry(dependencies, cell_ref) EXCEPT !.direct_depends = normalized_deps])

\* dependencies[cell_ref]["direct_depends"] = normalized_deps
SetDirectDepends(dependencies, cell_ref, normalized_deps) ==
    Put(dependencies, [Entry(dependencies, cell_ref) EXCEPT !.direct_depends = normalized_deps])

\* Mutant of AppendDependedBy: a cell is not recorded as its own dependent.
AppendDependedByOther(dependencies, dep, cell_ref) ==
    IF dep = cell_ref THEN dependencies
    ELSE Put(dependencies, [Entry(dependencies, dep) EXCEPT !.depended_by = Append(@, cell_ref)])

\* dependencies[dep]["depended_by"].append(cell_ref)
AppendDependedBy(dependencies, dep, cell_ref) ==
    Put(dependencies, [Entry(dependencies, dep) EXCEPT !.depended_by = Append(@, cell_ref)])

\* "for dep in normalized_deps: dependencies[dep]['depended_by'].append(cell_ref)"
RECURSIVE AddReverse(_, _, _)
AddReverse(dependencies, deps, cell_ref) ==
    IF deps = <<>> THEN dependencies
    ELSE AddReverse(AppendDependedBy(dependencies, Head(deps), cell_ref), Tail(deps), cell_ref)

RECURSIVE _analyze_dependencies(_)
_analyze_dependencies(formulas) ==
    IF formulas = <<>> THEN <<>>
    ELSE LET info == formulas[Len(formulas)]
             done == _analyze_dependencies(SubSeq(formulas, 1, Len(formulas) - 1))
             normalized_deps == NormalizedDeps(info.key, info.depends_on)
         IN  AddReverse(SetDirectDepends(done, info.key, normalized_deps),
                        normalized_deps, info.key)

(***************************************************************************)
(* _analyze_data_flow                                                      *)
(***************************************************************************)
\* dependencies.get(cell_ref, {}).get("depended_by")
DependedBy(dependencies, cell_ref) ==
    IF HasKey(dependencies, cell_ref)
    THEN dependencies[KeyIndex(dependencies, cell_ref)].depended_by
    ELSE <<>>

\* dependencies.get(cell, {}).get("direct_depends", [])
DirectDepends(dependencies, cell) ==
    IF HasKey(dependencies, cell)
    THEN dependencies[KeyIndex(dependencies, cell)].direct_depends
    ELSE <<>>

\* Mutant of StageOf: "elif cell_info['is_formula'] and deps.get('direct_depends')",
\* which skips a formula without references.
StageOfReferencing(dependencies, cell_info) ==
    IF cell_info.is_input THEN "input"
    ELSE IF cell_info.is_formula /\ DirectDepends(dependencies, cell_info.key) # <<>>
         THEN IF DependedBy(dependencies, cell_info.key) = <<>> THEN "output"
              ELSE "calculation"
         ELSE ""

\* The stage the loop of _analyze_data_flow appends a cell to ("" for none).
StageOf(dependencies, cell_info) ==
    IF cell_info.is_input THEN "input"
    ELSE IF cell_info.is_formula
         THEN IF DependedBy(dependencies, cell_info.key) = <<>> THEN "output"
              ELSE "calculation"
         ELSE ""

RECURSIVE StageCells(_, _, _)
StageCells(dependencies, cell_values, stage) ==
    IF cell_values = <<>> THEN <<>>
    ELSE LET rest == StageCells(dependencies, SubSeq(cell_values, 1, Len(cell_values) - 1), stage)
             last == cell_values[Len(cell_values)]
         IN  IF StageOf(dependencies, last) = stage THEN Append(rest, last.key) ELSE rest

_analyze_data_flow(dependencies, cell_values) ==
    LET input_cells  == StageCells(dependencies, cell_values, "input")
        calc_cells   == StageCells(dependencies, cell_values, "calculation")
        output_cells == StageCells(dependencies, cell_values, "output")
    IN  <<[stage |-> 1, cells |-> input_cells,  count |-> Len(input_cells)],
          [stage |-> 2, cells |-> calc_cells,   count |-> Len(calc_cells)],
          [stage |-> 3, cells |-> output_cells, count |-> Len(output_cells)]>>

(***************************************************************************)
(* _detect_patterns and _extract_formula_template                          *)
(***************************************************************************)
\* Mutant of RowTokenEnd: the pattern without its closing \b, which also
\* matches the head of a longer row number.
RowTokenEndNoBoundary(s, p, rowText) ==
    LET j == RunEnd(s, p, Upper)
    IN  IF WordBoundary(s, p) /\ j > p /\ OccursAt(s, rowText, j)
        THEN j + Len(rowText) ELSE 0

\* r'\b([A-Z]+)' + str(row) + r'\b' matched at s[p]: the position after the
\* match, or 0.  rowText is str(row).
RowTokenEnd(s, p, rowText) ==
    LET j == RunEnd(s, p, Upper)
        e == j + Len(rowText)
    IN  IF /\ WordBoundary(s, p)
           /\ j > p
           /\ OccursAt(s, rowText, j)
           /\ WordBoundary(s, e)
        THEN e ELSE 0

RowPlaceholder == <<"{", "r", "o", "w", "}">>

\* re.sub(r'\b([A-Z]+)' + str(row) + r'\b', r'\1{row}', formula), from s[p] on
RECURSIVE SubRow(_, _, _)
SubRow(s, p, rowText) ==
    LET q == NextMatch({i \in p..Len(s) : RowTokenEnd(s, i, rowText) > 0})
    IN  IF q = 0 THEN Slice(s, p, Len(s) + 1)
        ELSE Slice(s, p, q) \o Slice(s, q, RunEnd(s, q, Upper)) \o RowPlaceholder
                 \o SubRow(s, RowTokenEnd(s, q, rowText), rowText)

\* template of one (row, formula) of the group
RowTemplate(row, formula) == SubRow(formula, 1, IntToText(row))

\* An Optional[str]
NoTemplate == [is_none |-> TRUE, text |-> <<>>]

SomeTemplate(t) == [is_none |-> FALSE, text |-> t]

\* Mutant of _extract_formula_template: only the first two templates are
\* compared.
TemplateOfFirstTwo(formulas) ==
    IF Len(formulas) < 2 THEN NoTemplate
    ELSE IF RowTemplate(formulas[1].row, formulas[1].formula)
               = RowTemplate(formulas[2].row, formulas[2].formula)
         THEN SomeTemplate(RowTemplate(formulas[1].row, formulas[1].formula))
         ELSE NoTemplate

\* formulas is a list of [row, formula]
_extract_formula_template(formulas) ==
    IF Len(formulas) < 2 THEN NoTemplate
    ELSE LET templates == [i \in 1..Len(formulas) |->
                              RowTemplate(formulas[i].row, formulas[i].formula)]
         IN  IF Cardinality(ListToSet(templates)) = 1
             THEN SomeTemplate(templates[1])
             ELSE NoTemplate

\* The part of cell_ref after the '!' (the second of the two parts of
\* cell_ref.split('!'); see DetectPatternsRaises for a key with more parts).
CoordinateOf(cell_ref) ==
    Slice(cell_ref, IndexOf(cell_ref, "!", 1) + 1, Len(cell_ref) + 1)

\* re.match(r'([A-Z]+)', cell).group(1)
ColumnOf(cell) == Slice(cell, 1, RunEnd(cell, 1, Upper))

\* int(re.search(r'(\d+)', cell).group(1))
FirstDigit(s, p) ==
    LET at == {k \in p..Len(s) : s[k] \in Digit}
    IN  IF at = {} THEN 0 ELSE CHOOSE k \in at : \A m \in at : k <= m

RowOf(cell) ==
    LET d == FirstDigit(cell, 1)
    IN  ParseInt(Slice(cell, d, RunEnd(cell, d, Digit)))

\* The values of a list, each once, in the order of their first occurrence:
\* the keys of a defaultdict filled in the order of the list.
RECURSIVE Distinct(_)
Distinct(l) ==
    IF l = <<>> THEN <<>>
    ELSE LET rest == Distinct(SubSeq(l, 1, Len(l) - 1))
         IN  IF InList(l[Len(l)], rest) THEN rest ELSE Append(rest, l[Len(l)])

\* by_sheet.keys()
SheetsOf(formulas) == Distinct([i \in 1..Len(formulas) |-> SheetOf(formulas[i].key)])

RECURSIVE SelectKeys(_, _, _)
SelectKeys(formulas, sheet, col) ==
    IF formulas = <<>> THEN <<>>
    ELSE LET rest == SelectKeys(SubSeq(formulas, 1, Len(formulas) - 1), sheet, col)
             f    == formulas[Len(formulas)]
         IN  IF /\ SheetOf(f.key) = sheet
                /\ (col = <<>> \/ ColumnOf(CoordinateOf(f.key)) = col)
             THEN Append(rest, f)
             ELSE rest

\* by_column.keys() of a sheet
ColumnsOf(formulas, sheet) ==
    LET on == SelectKeys(formulas, sheet, <<>>)
    IN  Distinct([i \in 1..Len(on) |-> ColumnOf(CoordinateOf(on[i].key))])

\* by_column[col] of a sheet: the (row, formula) of its formula cells
FormulasInCol(formulas, sheet, col) ==
    LET on == SelectKeys(formulas, sheet, col)
    IN  [i \in 1..Len(on) |-> [row     |-> RowOf(CoordinateOf(on[i].key)),
                               formula |-> on[i].raw_formula]]

\* sorted(rows)
RECURSIVE Insert(_, _)
Insert(sorted, x) ==
    IF sorted = <<>> THEN <<x>>
    ELSE IF x >= sorted[Len(sorted)] THEN Append(sorted, x)
    ELSE Append(Insert(SubSeq(sorted, 1, Len(sorted) - 1), x), sorted[Len(sorted)])

RECURSIVE Sorted(_)
Sorted(l) ==
    IF l = <<>> THEN <<>>
    ELSE Insert(Sorted(SubSeq(l, 1, Len(l) - 1)), l[Len(l)])

\* rows = sorted([r for r, _ in formulas_in_col])
PatternRows(formulas_in_col) ==
    Sorted([i \in 1..Len(formulas_in_col) |-> formulas_in_col[i].row])

\* Mutant of PatternRange: the range ends at len(rows), not at rows[-1].
PatternRangeByCount(sheet, col, rows) ==
    sheet \o <<"!">> \o col \o IntToText(rows[1]) \o <<":">> \o col \o IntToText(Len(rows))

\* f"{sheet}!{col}{rows[0]}:{col}{rows[-1]}"
PatternRange(sheet, col, rows) ==
    sheet \o <<"!">> \o col \o IntToText(rows[1]) \o <<":">> \o col \o IntToText(rows[Len(rows)])

\* The smallest size of a column group that is examined ("if len(...) >= 3").
MinGroupSize == 3

\* Mutant of ColumnPatterns: without "if len(formulas_in_col) >= 3".
ColumnPatternsOfAnySize(sheet, col, formulas_in_col) ==
    LET template == _extract_formula_template(formulas_in_col)
        rows     == PatternRows(formulas_in_col)
    IN  IF ~template.is_none /\ template.text # <<>>
        THEN <<[type             |-> "column_loop",
                sheet            |-> sheet,
                column           |-> col,
                range            |-> PatternRange(sheet, col, rows),
                formula_template |-> template.text,
                count            |-> Len(formulas_in_col),
                rows             |-> rows]>>
        ELSE <<>>

\* What the body of "for col, formulas_in_col in by_column.items()" appends.
ColumnPatterns(sheet, col, formulas_in_col) ==
    LET template == _extract_formula_template(formulas_in_col)
        rows     == PatternRows(formulas_in_col)
    IN  IF Len(formulas_in_col) >= MinGroupSize /\ ~template.is_none /\ template.text # <<>>
        THEN <<[type             |-> "column_loop",
                sheet            |-> sheet,
                column           |-> col,
                range            |-> PatternRange(sheet, col, rows),
                formula_template |-> template.text,
                count            |-> Len(formulas_in_col),
                rows             |-> rows]>>
        ELSE <<>>

RECURSIVE SheetPatterns(_, _, _)
SheetPatterns(formulas, sheet, cols) ==
    IF cols = <<>> THEN <<>>
    ELSE ColumnPatterns(sheet, Head(cols), FormulasInCol(formulas, sheet, Head(cols)))
             \o SheetPatterns(formulas, sheet, Tail(cols))

RECURSIVE PatternsOfSheets(_, _)
PatternsOfSheets(formulas, sheets) ==
    IF sheets = <<>> THEN <<>>
    ELSE SheetPatterns(formulas, Head(sheets), ColumnsOf(formulas, Head(sheets)))
             \o PatternsOfSheets(formulas, Tail(sheets))

_detect_patterns(formulas) == PatternsOfSheets(formulas, SheetsOf(formulas))

(***************************************************************************)
(* The workbooks the extractor is run on.                                  *)
(***************************************************************************)
Sheet1 == <<"S", "h", "1">>

Coord(col, row) == <<col>> \o IntToText(row)

Cell(sheet, col, row, value) ==
    [sheet |-> sheet, coordinate |-> Coord(col, row), value |-> value]

\* "=" followed by the coordinates refs joined by op ("=5" for none)
RECURSIVE Joined(_, _)
Joined(refs, op) ==
    IF refs = <<>> THEN <<>>
    ELSE IF Len(refs) = 1 THEN refs[1]
    ELSE refs[1] \o <<op>> \o Joined(Tail(refs), op)

FormulaOf(refs, op) == IF refs = <<>> THEN <<"=", "5">> ELSE <<"=">> \o Joined(refs, op)

\* Graph workbooks: column A of Sheet1, rows GraphRows; a cell holds the
\* number 10 or a formula that adds at most MaxRefs cells of the column, or
\* sums a range of it.
GraphRows == 1..3

MaxRefs == 2

RECURSIVE SeqOfSet(_)
SeqOfSet(S) ==
    IF S = {} THEN <<>>
    ELSE LET m == CHOOSE x \in S : \A y \in S : x <= y
         IN  <<m>> \o SeqOfSet(S \ {m})

GraphFormulas ==
    {FormulaOf([i \in 1..Cardinality(R) |-> Coord("A", SeqOfSet(R)[i])], "+") :
        R \in {T \in SUBSET GraphRows : Cardinality(T) <= MaxRefs}}
    \cup {<<"=", "S", "U", "M", "(", "A", "1", ":", "A", "2", ")">>}

GraphValues == {Number(10)} \cup {String(f) : f \in GraphFormulas}

GraphWorkbooks ==
    {[r \in GraphRows |-> Cell(Sheet1, "A", r, v[r])] : v \in [GraphRows -> GraphValues]}

\* Column workbooks: rows 2..LastPatternRow of Sheet1 hold numbers in
\* columns A and B, and in column C nothing or one of two formulas that
\* are written in terms of the row of the cell.
LastPatternRow == 5

PatternRowSet == 2..LastPatternRow

ColumnValues(r) ==
    {None,
     String(FormulaOf(<<Coord("A", r), Coord("B", r)>>, "*")),
     String(FormulaOf(<<Coord("A", r), Coord("B", r)>>, "+"))}

\* The cells of the rows 2..LastPatternRow, row by row, c[r] in column C
ColumnCells(c) ==
    [i \in 1..(3 * (LastPatternRow - 1)) |->
        LET r == 2 + ((i - 1) \div 3)
        IN  IF i % 3 = 1 THEN Cell(Sheet1, "A", r, Number(r))
            ELSE IF i % 3 = 2 THEN Cell(Sheet1, "B", r, Number(10))
            ELSE Cell(Sheet1, "C", r, c[r])]

ColumnWorkbooks ==
    {ColumnCells(c) : c \in {f \in [PatternRowSet -> UNION {ColumnValues(r) : r \in PatternRowSet}] :
                                \A r \in PatternRowSet : f[r] \in ColumnValues(r)}}

\* Parser workbooks: formulas that carry a quoted sheet name, a function
\* name of the shape of a coordinate, absolute markers, no reference at all,
\* a qualified range, and a sheet whose name holds a '!'.
MySheet == <<"M", "y", " ", "S", "h", "e", "e", "t">>

BangSheet == <<"P", "!", "L">>

QuotedWorkbook ==
    <<Cell(Sheet1, "A", 1, String(<<"=", "'", "M", "y", " ", "S", "h", "e", "e", "t", "'", "!", "B", "2">>)),
      Cell(MySheet, "B", 1, Number(10)),
      Cell(MySheet, "B", 2, String(<<"=", "B", "1", "*", "2">>))>>

FunctionWorkbook ==
    <<Cell(Sheet1, "A", 1, Number(10)),
      Cell(Sheet1, "A", 2, String(<<"=", "L", "O", "G", "1", "0", "(", "A", "1", ")">>))>>

AbsoluteWorkbook ==
    <<Cell(Sheet1, "A", 1, Number(10)),
      Cell(Sheet1, "B", 1, String(<<"=", "A", "1", "*", "2">>)),
      Cell(Sheet1, "B", 2, String(<<"=", "$", "A", "$", "1", "*", "2">>)),
      Cell(Sheet1, "B", 3, String(<<"=", "A", "$", "1", "*", "2">>)),
      Cell(Sheet1, "B", 4, String(<<"=", "$", "A", "1", "*", "2">>))>>

MalformedWorkbook ==
    <<Cell(Sheet1, "A", 1, String(<<"=", "S", "U", "M", "(", "(">>)),
      Cell(Sheet1, "A", 2, String(<<"=", "'", "x", "!", "A">>)),
      Cell(Sheet1, "A", 3, String(<<"=">>)),
      Cell(Sheet1, "A", 4, String(<<"=", "A", "1", "+">>))>>

QualifiedRangeWorkbook ==
    <<Cell(Sheet1, "A", 1, Number(10)),
      Cell(Sheet1, "A", 2, Number(20)),
      Cell(Sheet1, "A", 3, String(<<"=", "S", "U", "M", "(", "S", "h", "1", "!", "A", "1", ":", "A", "2", ")">>)),
      Cell(Sheet1, "A", 4, String(<<"=", "S", "U", "M", "(", "A", "1", ":", "A", "2", ")", "/", "C", "O", "U", "N", "T", "(", "A", "1", ":", "A", "2", ")">>))>>

\* C3..C5 each "=A{r}*3+B33": the literal 3 is the row of C3, and 33 holds it
LiteralWorkbook ==
    [i \in 1..3 |->
        Cell(Sheet1, "C", i + 2,
             String(<<"=">> \o Coord("A", i + 2) \o <<"*", "3", "+", "B", "3", "3">>))]

BangWorkbook ==
    <<Cell(BangSheet, "A", 1, Number(10)),
      Cell(BangSheet, "A", 2, String(<<"=", "A", "1">>))>>

\* A4 sums the range A1:A3, in which A2 is a formula cell; A5 sums it and
\* names A2 once more, outside the range
RangeWorkbook ==
    <<Cell(Sheet1, "A", 1, Number(10)),
      Cell(Sheet1, "A", 2, String(<<"=", "A", "1", "*", "2">>)),
      Cell(Sheet1, "A", 3, Number(30)),
      Cell(Sheet1, "A", 4, String(<<"=", "S", "U", "M", "(", "A", "1", ":", "A", "3", ")">>)),
      Cell(Sheet1, "A", 5, String(<<"=", "S", "U", "M", "(", "A", "1", ":", "A", "3", ")", "+", "A", "2">>))>>

\* Formulas in which the text of one coordinate is part of the text of
\* another reference: A1 in A10, and A1 in Sh2!A11
SubstringWorkbook ==
    <<Cell(Sheet1, "A", 1, Number(10)),
      Cell(Sheet1, "A", 10, Number(20)),
      Cell(Sheet1, "B", 1, String(<<"=", "A", "1", "0", "+", "A", "1">>)),
      Cell(Sheet1, "B", 2, String(<<"=", "A", "1", "+", "A", "1", "0">>)),
      Cell(Sheet1, "B", 3, String(<<"=", "S", "h", "2", "!", "A", "1", "1", "+", "A", "1">>)),
      Cell(<<"S", "h", "2">>, "A", 11, Number(30))>>

\* Sh1!A1 sums a range of the other sheet, Sh1!A2 reads its formula cell B2
CrossSheetWorkbook ==
    <<Cell(Sheet1, "A", 1, String(<<"=", "S", "U", "M", "(", "S", "h", "2", "!", "A", "1", ":", "B", "2", ")">>)),
      Cell(Sheet1, "A", 2, String(<<"=", "S", "h", "2", "!", "B", "2", "*", "2">>)),
      Cell(<<"S", "h", "2">>, "A", 1, Number(1)),
      Cell(<<"S", "h", "2">>, "B", 1, Number(2)),
      Cell(<<"S", "h", "2">>, "A", 2, Number(3)),
      Cell(<<"S", "h", "2">>, "B", 2, String(<<"=", "A", "1", "*", "2">>))>>

ParserWorkbooks ==
    {QuotedWorkbook, FunctionWorkbook, AbsoluteWorkbook, MalformedWorkbook,
     QualifiedRangeWorkbook, LiteralWorkbook, BangWorkbook, RangeWorkbook,
     SubstringWorkbook, CrossSheetWorkbook}

\* Complexity workbooks: one formula "=1+ABS(1)+...+(1)+...+111..." with F
\* calls of distinct functions among its P parenthesised terms, padded with
\* digits to one of the lengths around the two length thresholds.
FunctionNames ==
    <<<<"A", "B", "S">>,
      <<"C", "O", "S">>,
      <<"E", "X", "P">>,
      <<"I", "N", "T">>,
      <<"L", "O", "G">>,
      <<"S", "I", "N">>>>

MaxParens == 6

PaddedLengths == {0, 100, 101, 200, 201}

\* "+t1+...+tP": the first F terms are calls, the others "(1)"
RECURSIVE Terms(_, _)
Terms(F, P) ==
    IF P = 0 THEN <<>>
    ELSE Terms(F, P - 1)
             \o <<"+">> \o (IF P <= F THEN FunctionNames[P] ELSE <<>>) \o <<"(", "1", ")">>

ComplexityFormula(L, F, P) ==
    LET base == <<"=", "1">> \o Terms(F, P)
    IN  IF L = 0 THEN base
        ELSE base \o <<"+">> \o [i \in 1..(L - Len(base) - 1) |-> "1"]

\* (P, F): P parentheses, F <= P of them after a function name
ParenCounts ==
    {c \in (0..MaxParens) \X (0..Len(FunctionNames)) : c[2] <= c[1]}

ComplexityWorkbooks ==
    {<<Cell(Sheet1, "A", 1, String(ComplexityFormula(L, c[2], c[1])))>> :
        L \in PaddedLengths, c \in ParenCounts}

\* Two-sheet workbooks: column C of Sheet1 and of Sheet2 holds, from row 2
\* on, one to MinGroupSize formulas "=A<row>*B<row>".
Sheet2 == <<"S", "h", "2">>

ProductCells(sheet, n) ==
    [i \in 1..n |->
        Cell(sheet, "C", i + 1, String(FormulaOf(<<Coord("A", i + 1), Coord("B", i + 1)>>, "*")))]

TwoSheetWorkbooks ==
    {ProductCells(Sheet1, n[1]) \o ProductCells(Sheet2, n[2]) :
        n \in (1..MinGroupSize) \X (1..MinGroupSize)}

Workbooks ==
    GraphWorkbooks \cup ColumnWorkbooks \cup ParserWorkbooks \cup ComplexityWorkbooks
        \cup TwoSheetWorkbooks

(***************************************************************************)
(* extract_all                                                             *)
(***************************************************************************)
\* self.context = {}
EmptyContext ==
    [keys |-> {}, cell_values |-> <<>>, cell_formulas |-> <<>>, dependencies |-> <<>>,
     calculation_order |-> <<>>, data_flow |-> <<>>, patterns |-> <<>>]

\* self.context.get("cell_formulas", self._extract_cell_formulas())
CellFormulasRead ==
    IF "cell_formulas" \in context.keys THEN context.cell_formulas
    ELSE _extract_cell_formulas(workbook, hashOrder)

\* self.context.get("dependencies", self._analyze_dependencies())
DependenciesRead ==
    IF "dependencies" \in context.keys THEN context.dependencies
    ELSE _analyze_dependencies(CellFormulasRead)

\* self.context.get("cell_values", self._extract_cell_values())
CellValuesRead ==
    IF "cell_values" \in context.keys THEN context.cell_values
    ELSE _extract_cell_values(workbook)

Init ==
    /\ hashOrder = <<>>
    /\ workbook = <<>>
    /\ context = EmptyContext
    /\ building = EmptyContext
    /\ pc = "load"
    /\ visited = {}
    /\ order = <<>>
    /\ stack = <<>>
    /\ keyIdx = 0
    /\ graph = <<>>
    /\ calls = 0
    /\ process = 1
    /\ returned = <<>>

dfsVars == <<visited, order, stack, keyIdx, graph>>

callVars == <<calls, process, returned>>

\* The workbooks on which a further call of extract_all is followed: A1 is
\* "=A2+A3" or "=A2", over the numbers A2 and A3.
RerunWorkbooks ==
    {[r \in GraphRows |->
         Cell(Sheet1, "A", r, IF r = 1 THEN String(f) ELSE Number(10))] :
        f \in {FormulaOf(<<Coord("A", 2), Coord("A", 3)>>, "+"),
               FormulaOf(<<Coord("A", 2)>>, "+")}}

\* The calls of extract_all that are followed, over all processes.
MaxCalls == 2

\* What the file may hold when extract_all loads it
FileContents == IF calls = 0 THEN Workbooks ELSE RerunWorkbooks

\* Hash order h lists the sets as this process has listed them so far
Extends(h) == \A t \in DOMAIN h \cap DOMAIN hashOrder : h[t] = hashOrder[t]

Merged(h) ==
    [t \in DOMAIN h \cup DOMAIN hashOrder |-> IF t \in DOMAIN h THEN h[t] ELSE hashOrder[t]]

\* self.workbook = openpyxl.load_workbook(...): the file holds one of the
\* workbooks, and the process lists sets of strings in one of the orders.
Load ==
    /\ pc = "load"
    /\ \E wb \in FileContents : \E h \in HashOrders(FormulaTexts(wb)) :
          /\ Extends(h)
          /\ workbook' = wb
          /\ hashOrder' = Merged(h)
    /\ building' = EmptyContext
    /\ pc' = "cell_values"
    /\ calls' = calls + 1
    /\ UNCHANGED <<context, dfsVars, process, returned>>

\* openpyxl.load_workbook raises (the file is missing or is no workbook):
\* extract_all does not catch it; self.workbook and self.context stay as
\* they were.
LoadFails ==
    /\ pc = "load"
    /\ pc' = "load_error"
    /\ calls' = calls + 1
    /\ UNCHANGED <<workbook, context, building, hashOrder, dfsVars, process, returned>>

\* "cell_values": self._extract_cell_values()
ExtractCellValues ==
    /\ pc = "cell_values"
    /\ building' = [building EXCEPT !.cell_values = _extract_cell_values(workbook),
                                    !.keys = @ \cup {"cell_values"}]
    /\ pc' = "cell_formulas"
    /\ UNCHANGED <<callVars, workbook, context, hashOrder, dfsVars>>

\* "cell_formulas": self._extract_cell_formulas()
ExtractCellFormulas ==
    /\ pc = "cell_formulas"
    /\ building' = [building EXCEPT !.cell_formulas = _extract_cell_formulas(workbook, hashOrder),
                                    !.keys = @ \cup {"cell_formulas"}]
    /\ pc' = "dependencies"
    /\ UNCHANGED <<callVars, workbook, context, hashOrder, dfsVars>>

\* "dependencies": self._analyze_dependencies()
AnalyzeDependencies ==
    /\ pc = "dependencies"
    /\ building' = [building EXCEPT !.dependencies = _analyze_dependencies(CellFormulasRead),
                                    !.keys = @ \cup {"dependencies"}]
    /\ pc' = "calculation_order"
    /\ UNCHANGED <<callVars, workbook, context, hashOrder, dfsVars>>

(***************************************************************************)
(* _determine_calculation_order.  visit() is recursive: stack holds its    *)
(* frames, the innermost last.  A frame is [cell, i]: i = 0 before the     *)
(* "if cell in visited" test, and afterwards the position in deps of the   *)
(* next "visit(dep)".                                                      *)
(***************************************************************************)
Top == stack[Len(stack)]

Pop == SubSeq(stack, 1, Len(stack) - 1)

\* Mutant of AlreadyVisited: a traversal without the visited test.
AlreadyVisitedNever(cell) == FALSE

\* "if cell in visited"
AlreadyVisited(cell) == cell \in visited

\* Mutant of Appended: a cell that references itself is left out.
AppendedUnlessSelfReference(ord, cell) ==
    IF InList(cell, DirectDepends(graph, cell)) THEN ord ELSE Append(ord, cell)

\* "order.append(cell)"
Appended(ord, cell) == Append(ord, cell)

\* The first lines of _determine_calculation_order
BeginOrder ==
    /\ pc = "calculation_order"
    /\ graph' = DependenciesRead
    /\ visited' = {}
    /\ order' = <<>>
    /\ stack' = <<>>
    /\ keyIdx' = 1
    /\ pc' = "visiting"
    /\ UNCHANGED <<callVars, workbook, context, building, hashOrder>>

\* "for cell in dependencies.keys(): visit(cell)"
VisitNextKey ==
    /\ pc = "visiting"
    /\ stack = <<>>
    /\ keyIdx <= Len(graph)
    /\ stack' = <<[cell |-> graph[keyIdx].key, i |-> 0]>>
    /\ keyIdx' = keyIdx + 1
    /\ UNCHANGED <<callVars, workbook, context, building, pc, hashOrder, visited, order, graph>>

\* "if cell in visited: return"
VisitReturn ==
    /\ pc = "visiting"
    /\ stack # <<>>
    /\ Top.i = 0
    /\ AlreadyVisited(Top.cell)
    /\ stack' = Pop
    /\ UNCHANGED <<callVars, workbook, context, building, pc, hashOrder, visited, order, keyIdx, graph>>

\* "visited.add(cell)"
VisitEnter ==
    /\ pc = "visiting"
    /\ stack # <<>>
    /\ Top.i = 0
    /\ ~AlreadyVisited(Top.cell)
    /\ visited' = visited \cup {Top.cell}
    /\ stack' = [stack EXCEPT ![Len(stack)].i = 1]
    /\ UNCHANGED <<callVars, workbook, context, building, pc, hashOrder, order, keyIdx, graph>>

\* "for dep in deps: visit(dep)"
VisitDep ==
    /\ pc = "visiting"
    /\ stack # <<>>
    /\ Top.i >= 1
    /\ Top.i <= Len(DirectDepends(graph, Top.cell))
    /\ stack' = Append([stack EXCEPT ![Len(stack)].i = @ + 1],
                       [cell |-> DirectDepends(graph, Top.cell)[Top.i], i |-> 0])
    /\ UNCHANGED <<callVars, workbook, context, building, pc, hashOrder, visited, order, keyIdx, graph>>

\* "order.append(cell)", and visit returns
VisitAppend ==
    /\ pc = "visiting"
    /\ stack # <<>>
    /\ Top.i >= 1
    /\ Top.i > Len(DirectDepends(graph, Top.cell))
    /\ order' = Appended(order, Top.cell)
    /\ stack' = Pop
    /\ UNCHANGED <<callVars, workbook, context, building, pc, hashOrder, visited, keyIdx, graph>>

\* What "return order" returns: the list of addresses.  No entry of it
\* carries a flag, and no list of cycles is returned with it.
ReturnedOrder == [order |-> order, cycle_flags |-> {}, cycles |-> <<>>]

\* "return order"
EndOrder ==
    /\ pc = "visiting"
    /\ stack = <<>>
    /\ keyIdx > Len(graph)
    /\ building' = [building EXCEPT !.calculation_order = ReturnedOrder.order,
                                    !.keys = @ \cup {"calculation_order"}]
    /\ pc' = "data_flow"
    /\ UNCHANGED <<callVars, workbook, context, hashOrder, dfsVars>>

\* "data_flow": self._analyze_data_flow()
AnalyzeDataFlow ==
    /\ pc = "data_flow"
    /\ building' = [building EXCEPT !.data_flow = _analyze_data_flow(DependenciesRead, CellValuesRead),
                                    !.keys = @ \cup {"data_flow"}]
    /\ pc' = "patterns"
    /\ UNCHANGED <<callVars, workbook, context, hashOrder, dfsVars>>

\* "sheet, cell = cell_ref.split('!')" has two parts to unpack
SplitsInTwo(cell_ref) == CountOf(cell_ref, "!") = 1

\* "patterns": self._detect_patterns()
DetectPatterns ==
    /\ pc = "patterns"
    /\ \A k \in ListToSet(Keys(CellFormulasRead)) : SplitsInTwo(k)
    /\ building' = [building EXCEPT !.patterns = _detect_patterns(CellFormulasRead),
                                    !.keys = @ \cup {"patterns"}]
    /\ pc' = "assign"
    /\ UNCHANGED <<callVars, workbook, context, hashOrder, dfsVars>>

\* "sheet, cell = cell_ref.split('!')" raises ValueError for a key with two
\* '!': extract_all does not catch it, the dict it was building is lost and
\* self.context is not assigned.
DetectPatternsRaises ==
    /\ pc = "patterns"
    /\ \E k \in ListToSet(Keys(CellFormulasRead)) : ~SplitsInTwo(k)
    /\ building' = EmptyContext
    /\ pc' = "value_error"
    /\ UNCHANGED <<callVars, workbook, context, hashOrder, dfsVars>>

\* "self.context = {...}", self.workbook.close() and "return self.context"
Finish ==
    /\ pc = "assign"
    /\ context' = building
    /\ pc' = "done"
    /\ returned' = Append(returned, [process |-> process, workbook |-> workbook,
                                     context |-> building])
    /\ UNCHANGED <<workbook, building, hashOrder, dfsVars, calls, process>>

\* extract_all has returned or raised
Ended == pc \in {"done", "load_error", "value_error"}

\* Further calls are followed after a call that loaded no workbook or one
\* of RerunWorkbooks.
Followed == calls < MaxCalls /\ (workbook = <<>> \/ workbook \in RerunWorkbooks)

\* The caller calls extract_all again on the same extractor.
CallAgain ==
    /\ Ended
    /\ Followed
    /\ pc' = "load"
    /\ UNCHANGED <<workbook, context, building, hashOrder, dfsVars, callVars>>

\* The program is run again: a new interpreter, with its own hash order,
\* makes a new extractor ("self.workbook = None", "self.context = {}").
NewProcess ==
    /\ Ended
    /\ Followed
    /\ process' = process + 1
    /\ hashOrder' = <<>>
    /\ workbook' = <<>>
    /\ context' = EmptyContext
    /\ building' = EmptyContext
    /\ pc' = "load"
    /\ UNCHANGED <<dfsVars, calls, returned>>

Next ==
    \/ Load
    \/ LoadFails
    \/ ExtractCellValues
    \/ ExtractCellFormulas
    \/ AnalyzeDependencies
    \/ BeginOrder
    \/ VisitNextKey
    \/ VisitReturn
    \/ VisitEnter
    \/ VisitDep
    \/ VisitAppend
    \/ EndOrder
    \/ AnalyzeDataFlow
    \/ DetectPatterns
    \/ DetectPatternsRaises
    \/ Finish
    \/ CallAgain
    \/ NewProcess

Spec == Init /\ [][Next]_vars

(***************************************************************************)
(* Vocabulary of the properties.                                           *)
(***************************************************************************)
\* _determine_calculation_order has just returned the order
OrderReturned == pc = "data_flow"

\* The formula cells of the formula table the graph was built from
FormulaCells == ListToSet(Keys(CellFormulasRead))

\* The addresses cell depends on directly, in the graph the order was
\* computed from
Successors(cell) == ListToSet(DirectDepends(graph, cell))

RECURSIVE ReachFrom(_)
ReachFrom(S) ==
    LET T == S \cup UNION {Successors(x) : x \in S}
    IN  IF T = S THEN S ELSE ReachFrom(T)

\* a depends on b, directly or transitively
DependsOn(a, b) == b \in ReachFrom(Successors(a))

\* a lies on a dependency cycle (a self-reference is one)
OnCycle(a) == DependsOn(a, a)

\* The first position of x in list l, or 0
Position(l, x) ==
    IF InList(x, l) THEN CHOOSE i \in 1..Len(l) : l[i] = x /\ \A j \in 1..(i - 1) : l[j] # x
    ELSE 0

\* How often x occurs in list l
Occurrences(l, x) == Cardinality({i \in 1..Len(l) : l[i] = x})

Precedes(l, b, a) == Position(l, b) > 0 /\ Position(l, a) > 0 /\ Position(l, b) < Position(l, a)

(***************************************************************************)
(* C1.  Order correctness: whenever formula cell A depends on formula cell *)
(* B, directly or transitively, and B does not depend on A, B comes before *)
(* A in the returned calculation order.  The code breaks this for a cell A *)
(* that reaches B only through a cycle it lies on: this formula is the     *)
(* claim, and TLC finds it violated.                                       *)
(***************************************************************************)
C1_OrderRespectsDependencies ==
    OrderReturned =>
        \A a \in FormulaCells : \A b \in FormulaCells :
            (DependsOn(a, b) /\ ~DependsOn(b, a))
                => Precedes(building.calculation_order, b, a)

(***************************************************************************)
(* C2.  Termination: in every run no cell is entered twice by visit (the   *)
(* cells of the frames that passed the visited test and the cells already  *)
(* appended are pairwise different), the traversal is never stuck before   *)
(* it returns the order, and every step of it before the return decreases  *)
(* WorkLeft, a natural number: so it returns the order after at most       *)
(* WorkLeft steps, whatever the shape of the graph.                        *)
(***************************************************************************)
\* The cells visit has entered: those of the running frames, then the
\* finished ones
EnteredCells ==
    LET running == SelectSeq(stack, LAMBDA f : f.i >= 1)
    IN  [i \in 1..Len(running) |-> running[i].cell] \o order

NoCellEnteredTwice == \A c \in ListToSet(EnteredCells) : Occurrences(EnteredCells, c) = 1

Sum(f, n) ==
    LET S[k \in 0..n] == IF k = 0 THEN 0 ELSE S[k - 1] + f[k]
    IN  S[n]

\* The steps the traversal still has to take at most: two for every key the
\* loop has not taken (the call and its return when the cell is visited),
\* for every cell not entered its entry, its append and two per reference,
\* for every running frame its append and two per reference left, one for
\* every frame that has not passed the visited test.
WorkLeft ==
    LET n == Len(graph)
        unvisited == [k \in 1..n |->
            IF graph[k].key \in visited THEN 0 ELSE 2 + 2 * Len(graph[k].direct_depends)]
        frames == [k \in 1..Len(stack) |->
            IF stack[k].i = 0 THEN 1
            ELSE 1 + 2 * (Len(DirectDepends(graph, stack[k].cell)) + 1 - stack[k].i)]
    IN  2 * (n + 1 - keyIdx) + Sum(unvisited, n) + Sum(frames, Len(stack))

Traversing == pc = "visiting"

C4_CyclicCellsFlagged ==
    OrderReturned =>
        /\ \A c \in FormulaCells : OnCycle(c) => c \in ReturnedOrder.cycle_flags
        /\ (\E c \in FormulaCells : OnCycle(c)) => ReturnedOrder.cycles # <<>>

(***************************************************************************)
(* C5.  Only formula cells are in the calculation order.  The code also    *)
(* appends every referenced literal, empty cell and range: this formula is *)
(* the claim, and TLC finds it violated.                                   *)
(***************************************************************************)
C5_OnlyFormulaCellsInOrder ==
    OrderReturned =>
        \A i \in 1..Len(building.calculation_order) :
            building.calculation_order[i] \in FormulaCells

(***************************************************************************)
(* C6.  Graph consistency: in the graph _analyze_dependencies returns, B   *)
(* is in direct_depends of A iff A is in depended_by of B, for all         *)
(* addresses A and B of the graph.                                         *)
(***************************************************************************)
\* Every address that is a key of graph d or occurs in one of its lists
AddressesOf(d) ==
    ListToSet(Keys(d))
        \cup UNION {ListToSet(d[i].direct_depends) : i \in 1..Len(d)}
        \cup UNION {ListToSet(d[i].depended_by) : i \in 1..Len(d)}

Consistent(d) ==
    \A a \in AddressesOf(d) : \A b \in AddressesOf(d) :
        InList(b, DirectDepends(d, a)) <=> InList(a, DependedBy(d, b))

\* _analyze_dependencies has just returned the graph
GraphReturned == pc = "calculation_order"

\* C6: in the graph returned, B is in direct_depends of A iff A is in
\* depended_by of B.
C6_ForwardReverseConsistent == GraphReturned => Consistent(building.dependencies)

\* C6 witness: a returned graph with an edge between two different cells
\* and a self-reference
C6_Witness ==
    /\ GraphReturned
    /\ \E a \in AddressesOf(building.dependencies) : \E b \in AddressesOf(building.dependencies) :
          /\ a # b
          /\ InList(b, DirectDepends(building.dependencies, a))
          /\ InList(a, DirectDepends(building.dependencies, a))

(***************************************************************************)
(* C7.  Data flow is a partition: every cell of the cell-value table that  *)
(* _analyze_data_flow read occurs exactly once in the cells of the three   *)
(* stages together.                                                        *)
(***************************************************************************)
\* _analyze_data_flow has just returned the stages
DataFlowReturned == pc = "patterns"

\* The cells of stage n of the returned data flow
StageList(n) == building.data_flow[n].cells

AllStageCells == StageList(1) \o StageList(2) \o StageList(3)

\* C7: every valued cell is in exactly one stage, exactly once.
C7_DataFlowPartitions ==
    DataFlowReturned =>
        /\ Len(building.data_flow) = 3
        /\ \A c \in ListToSet(Keys(CellValuesRead)) : Occurrences(AllStageCells, c) = 1

\* C7 witness: a data flow with a cell in each of the three stages
C7_Witness ==
    /\ DataFlowReturned
    /\ StageList(1) # <<>>
    /\ StageList(2) # <<>>
    /\ StageList(3) # <<>>

(***************************************************************************)
(* C8.  Classification: a cell is input iff it holds a literal; a formula  *)
(* cell is calculation iff some OTHER cell's formula references it, and    *)
(* output iff no other cell's formula does.  The code counts a cell's own  *)
(* reference to itself as a dependent: this formula is the claim, and TLC  *)
(* finds it violated.                                                      *)
(***************************************************************************)
\* Some formula cell other than c has c in its reference set
ReferencedByOther(d, c) ==
    \E a \in ListToSet(Keys(d)) : a # c /\ InList(c, DirectDepends(d, a))

\* C8 as claimed: input iff literal; a formula cell is calculation iff some
\* OTHER cell references it, output iff none does.  TLC finds it violated.
C8_ClassifiedByOtherDependents ==
    DataFlowReturned =>
        \A i \in 1..Len(CellValuesRead) :
            LET info == CellValuesRead[i]
                c    == info.key
            IN  /\ InList(c, StageList(1)) <=> ~info.is_formula
                /\ info.is_formula =>
                      /\ InList(c, StageList(2)) <=> ReferencedByOther(DependenciesRead, c)
                      /\ InList(c, StageList(3)) <=> ~ReferencedByOther(DependenciesRead, c)

(***************************************************************************)
(* C9.  All-or-nothing: a (sheet, column) group in which two formulas      *)
(* reduce to different templates has no pattern.                           *)
(***************************************************************************)
\* _detect_patterns has just returned the patterns
PatternsReturned == pc = "assign"

\* The (sheet, column) groups of the formula table _detect_patterns read
Groups ==
    {<<SheetOf(k), ColumnOf(CoordinateOf(k))>> : k \in ListToSet(Keys(CellFormulasRead))}

GroupOf(g) == FormulasInCol(CellFormulasRead, g[1], g[2])

TemplatesOf(g) == {RowTemplate(f.row, f.formula) : f \in ListToSet(GroupOf(g))}

\* The patterns reported for group g
PatternsFor(g) ==
    SelectSeq(building.patterns, LAMBDA q : q.sheet = g[1] /\ q.column = g[2])

\* C9: a group whose formulas reduce to more than one template has no pattern.
C9_AllOrNothing ==
    PatternsReturned =>
        \A g \in Groups : Cardinality(TemplatesOf(g)) > 1 => PatternsFor(g) = <<>>

\* C9 witness: a group of at least three formulas, all but one of one
\* template, and no pattern for it
C9_Witness ==
    /\ PatternsReturned
    /\ \E g \in Groups :
          /\ Len(GroupOf(g)) >= 4
          /\ Cardinality(TemplatesOf(g)) = 2
          /\ \E t \in TemplatesOf(g) :
                Cardinality({i \in 1..Len(GroupOf(g)) :
                    RowTemplate(GroupOf(g)[i].row, GroupOf(g)[i].formula) = t}) = 1
          /\ PatternsFor(g) = <<>>

(***************************************************************************)
(* C10.  A group of n >= 3 formulas that all reduce to one template has    *)
(* exactly one pattern, with count n and the range from its smallest to    *)
(* its largest row.                                                        *)
(***************************************************************************)
GroupRows(g) == {GroupOf(g)[i].row : i \in 1..Len(GroupOf(g))}

MinOf(S) == CHOOSE x \in S : \A y \in S : x <= y

MaxOf(S) == CHOOSE x \in S : \A y \in S : x >= y

\* The pattern of group g but for its template
OnePatternOf(g) ==
    /\ Len(PatternsFor(g)) = 1
    /\ PatternsFor(g)[1].count = Len(GroupOf(g))
    /\ PatternsFor(g)[1].range =
          g[1] \o <<"!">> \o g[2] \o IntToText(MinOf(GroupRows(g)))
               \o <<":">> \o g[2] \o IntToText(MaxOf(GroupRows(g)))

UniformGroup(g) == Len(GroupOf(g)) >= 3 /\ Cardinality(TemplatesOf(g)) = 1

OwnRowTokenEnd(s, p, rowText) ==
    LET e == RunEnd(s, p, Word)
        j == RunEnd(s, p, Upper)
    IN  IF At(s, p, Word) /\ ~At(s, p - 1, Word) /\ j > p /\ Slice(s, j, e) = rowText
        THEN e ELSE 0

\* s from s[p] on, with every own-row token turned into <letters>{row}
RECURSIVE TokenTemplateFrom(_, _, _)
TokenTemplateFrom(s, p, rowText) ==
    LET q == NextMatch({i \in p..Len(s) : OwnRowTokenEnd(s, i, rowText) > 0})
    IN  IF q = 0 THEN Slice(s, p, Len(s) + 1)
        ELSE Slice(s, p, q) \o Slice(s, q, RunEnd(s, q, Upper)) \o RowPlaceholder
                 \o TokenTemplateFrom(s, OwnRowTokenEnd(s, q, rowText), rowText)

TokenTemplatesOf(g) ==
    {TokenTemplateFrom(GroupOf(g)[i].formula, 1, IntToText(GroupOf(g)[i].row)) :
        i \in 1..Len(GroupOf(g))}

\* C11: a group of at least three formulas has a pattern exactly when the
\* formulas agree once their own-row tokens, and nothing else, are replaced,
\* and the pattern's template is that text.
C11_OnlyOwnRowTokens ==
    PatternsReturned =>
        \A g \in Groups : Len(GroupOf(g)) >= MinGroupSize =>
            IF Cardinality(TokenTemplatesOf(g)) = 1
            THEN /\ Len(PatternsFor(g)) = 1
                 /\ PatternsFor(g)[1].formula_template \in TokenTemplatesOf(g)
            ELSE PatternsFor(g) = <<>>

\* C11 witness: C3..C5 each "=A{r}*3+B33" give the template "=A{row}*3+B33",
\* the literal 3 and the coordinate B33 of row 3 untouched
C11_Witness ==
    /\ PatternsReturned
    /\ \E i \in 1..Len(building.patterns) :
          /\ 3 \in ListToSet(building.patterns[i].rows)
          /\ building.patterns[i].formula_template = <<"=", "A", "{", "r", "o", "w", "}", "*", "3", "+", "B", "3", "3">>

(***************************************************************************)
(* C12.  A formula that holds the quoted reference 'My Sheet'!B2 has the   *)
(* normalized My Sheet!B2 in its reference list, and no other entry for    *)
(* that reference.  The code keeps the matched text, quotes included: this *)
(* formula is the claim, and TLC finds it violated.                        *)
(***************************************************************************)
FormulasReturned == "cell_formulas" \in building.keys

QuotedReference == <<"'", "M", "y", " ", "S", "h", "e", "e", "t", "'", "!", "B", "2">>

NormalizedReference == <<"M", "y", " ", "S", "h", "e", "e", "t", "!", "B", "2">>

\* C12 as claimed: the only entry made of that reference is My Sheet!B2.
C12_QuotedSheetNormalized ==
    FormulasReturned =>
        \A i \in 1..Len(building.cell_formulas) :
            LET info == building.cell_formulas[i]
            IN  IsSubstring(QuotedReference, info.raw_formula) =>
                    /\ InList(NormalizedReference, info.depends_on)
                    /\ \A r \in ListToSet(info.depends_on) :
                          IsSubstring(r, QuotedReference) => r = NormalizedReference

(***************************************************************************)
(* C13.  A token directly followed by "(" is a function name and is not in *)
(* the reference list.  pattern1 matches LOG10 in =LOG10(A1): this formula *)
(* is the claim, and TLC finds it violated.                                *)
(***************************************************************************)
\* r occurs in s as a token directly followed by "("
IsCalled(s, r) ==
    \E p \in 1..Len(s) :
        OccursAt(s, r, p) /\ ~At(s, p - 1, Word) /\ At(s, p + Len(r), {"("})

\* C13 as claimed: no reference of a formula is a function name of it.
C13_FunctionNameNotReference ==
    FormulasReturned =>
        \A i \in 1..Len(building.cell_formulas) :
            LET info == building.cell_formulas[i]
            IN  \A r \in ListToSet(info.depends_on) : ~IsCalled(info.raw_formula, r)

(***************************************************************************)
(* C14.  Two formulas that differ only by "$" markers have the same        *)
(* reference set.  The code does not strip the markers, and a "$" between  *)
(* the letters and the digits hides the coordinate from its patterns: this *)
(* formula is the claim, and TLC finds it violated.                        *)
(***************************************************************************)
StripMarkers(s) == SelectSeq(s, LAMBDA c : c # "$")

\* C14 as claimed: formulas equal up to "$" have equal reference sets.
C14_AbsoluteMarkersStripped ==
    FormulasReturned =>
        \A i, j \in 1..Len(building.cell_formulas) :
            LET a == building.cell_formulas[i]
                b == building.cell_formulas[j]
            IN  /\ SheetOf(a.key) = SheetOf(b.key)
                /\ StripMarkers(a.raw_formula) = StripMarkers(b.raw_formula)
                => ListToSet(a.depends_on) = ListToSet(b.depends_on)

(***************************************************************************)
(* C15.  _extract_cell_references returns a reference list for every       *)
(* formula text, malformed or not: a list without repetition of pieces of  *)
(* the formula, which is empty when the formula holds no capital letter    *)
(* directly followed by a digit, the least that every pattern needs.       *)
(***************************************************************************)
\* s holds a capital letter directly followed by a digit
HasCoordinateShape(s) == \E p \in 1..Len(s) : At(s, p, Upper) /\ At(s, p + 1, Digit)

\* _extract_cell_formulas has just returned the formula table
FormulasJustReturned == pc = "dependencies"

\* C15: every formula of the workbook has its entry in the table returned,
\* and its reference list is a best-effort set, empty when nothing can be
\* recognized.
C15_ReferencesAlwaysReturned ==
    FormulasJustReturned =>
        /\ FormulaTexts(workbook)
              = {building.cell_formulas[i].raw_formula : i \in 1..Len(building.cell_formulas)}
        /\ \A i \in 1..Len(building.cell_formulas) :
              LET info == building.cell_formulas[i]
              IN  /\ \A r \in ListToSet(info.depends_on) :
                        /\ IsSubstring(r, info.raw_formula)
                        /\ Occurrences(info.depends_on, r) = 1
                  /\ ~HasCoordinateShape(info.raw_formula) => info.depends_on = <<>>

\* C15 witness: the formulas "=SUM((", "='x!A" and "=" extracted, each with
\* an empty reference list, next to "=A1+" with its one reference
C15_Witness ==
    /\ FormulasJustReturned
    /\ \A f \in {<<"=", "S", "U", "M", "(", "(">>, <<"=", "'", "x", "!", "A">>, <<"=">>} :
          \E i \in 1..Len(building.cell_formulas) :
              /\ building.cell_formulas[i].raw_formula = f
              /\ building.cell_formulas[i].depends_on = <<>>
    /\ \E i \in 1..Len(building.cell_formulas) :
          /\ building.cell_formulas[i].raw_formula = <<"=", "A", "1", "+">>
          /\ building.cell_formulas[i].depends_on = <<<<"A", "1">>>>

(***************************************************************************)
(* C16.  The complexity tier of a formula of length L with F distinct      *)
(* function names and P opening parentheses is high iff L > 200 or F > 5   *)
(* or P > 5, medium iff it is not high and L > 100 or F > 3 or P > 3, and  *)
(* low otherwise: one tier per formula, the thresholds in the lower tier.  *)
(***************************************************************************)
Exceeds(info, maxLength, maxCount) ==
    \/ info.length > maxLength
    \/ Cardinality(info.used_functions) > maxCount
    \/ CountOf(info.raw_formula, "(") > maxCount

\* C16: the tier of every formula of the table, by the two threshold triples
C16_ComplexityTiers ==
    FormulasJustReturned =>
        \A i \in 1..Len(building.cell_formulas) :
            LET info == building.cell_formulas[i]
            IN  /\ info.length = Len(info.raw_formula)
                /\ info.complexity \in {"high", "medium", "low"}
                /\ info.complexity = "high" <=> Exceeds(info, 200, 5)
                /\ info.complexity = "medium" <=>
                      ~Exceeds(info, 200, 5) /\ Exceeds(info, 100, 3)
                /\ info.complexity = "low" <=> ~Exceeds(info, 100, 3)

\* C16 witness: a formula of length 200 with 5 function names and 5
\* parentheses, all three on the upper thresholds, is medium
C16_Witness ==
    /\ FormulasJustReturned
    /\ \E i \in 1..Len(building.cell_formulas) :
          LET info == building.cell_formulas[i]
          IN  /\ info.length = 200
              /\ Cardinality(info.used_functions) = 5
              /\ CountOf(info.raw_formula, "(") = 5
              /\ info.complexity = "medium"

(***************************************************************************)
(* C18.  Edges have set semantics: no direct_depends list and no           *)
(* depended_by list of the graph holds an address twice.  The code removes *)
(* the repetitions before it qualifies the references, and a range that is *)
(* written with the sheet of its own cell is collected with and without    *)
(* the qualifier: this formula is the claim, and TLC finds it violated.    *)
(***************************************************************************)
NoRepetition(l) == \A i, j \in 1..Len(l) : l[i] = l[j] => i = j

\* C18 as claimed: every list of the graph returned is without repetition.
C18_EdgesAreSets ==
    GraphReturned =>
        \A i \in 1..Len(building.dependencies) :
            /\ NoRepetition(building.dependencies[i].direct_depends)
            /\ NoRepetition(building.dependencies[i].depended_by)

(***************************************************************************)
(* C19.  A reference without a sheet qualifier enters the graph qualified  *)
(* with the sheet of its formula cell, and every key and every target of   *)
(* the graph is Sheet!Coord or Sheet!Coord:Coord.  The code takes the      *)
(* sheet of a cell to be its address up to the first "!", which is not the *)
(* sheet when the sheet's name holds a "!": this formula is the claim, and *)
(* TLC finds it violated.                                                  *)
(***************************************************************************)
\* The sheet of the cell of the workbook whose address is cell_ref
OwnSheet(cell_ref) ==
    LET cell == CHOOSE c \in ListToSet(workbook) : CellRef(c) = cell_ref
    IN  cell.sheet

\* a is <sheet>!<coordinate> or <sheet>!<coordinate>:<coordinate>
IsAddress(a) ==
    \E b \in 2..Len(a) : a[b] = "!" /\ CoordOrRangeEnd(a, b + 1) = Len(a) + 1

\* C19 as claimed, on the graph _analyze_dependencies returns.
C19_ResolvedAgainstOwnSheet ==
    GraphReturned =>
        /\ \A i \in 1..Len(building.cell_formulas) :
              LET info == building.cell_formulas[i]
              IN  \A r \in ListToSet(info.depends_on) :
                      IndexOf(r, "!", 1) = 0 =>
                          InList(OwnSheet(info.key) \o <<"!">> \o r,
                                 DirectDepends(building.dependencies, info.key))
        /\ \A i \in 1..Len(building.dependencies) :
              /\ IsAddress(building.dependencies[i].key)
              /\ \A d \in ListToSet(building.dependencies[i].direct_depends) : IsAddress(d)

(***************************************************************************)
(* C17.  When loading the workbook fails, extract_all raises and the       *)
(* extractor's context holds no dependencies, no calculation order, no     *)
(* data flow and no patterns, also when an earlier extract_all on the same *)
(* extractor had succeeded.  The code assigns self.context only after a    *)
(* successful load and never clears it, so a failed call leaves the        *)
(* analysis of the earlier call in self.context, where save_context finds  *)
(* it: this formula is the claim, and TLC finds it violated.               *)
(***************************************************************************)
\* load_workbook has raised out of extract_all
LoadFailed == pc = "load_error"

\* The context holds no analysis
NoAnalysis(c) ==
    /\ c.dependencies = <<>>
    /\ c.calculation_order = <<>>
    /\ c.data_flow = <<>>
    /\ c.patterns = <<>>

\* C17 as claimed, on the context the extractor holds after the failure.
C17_LoadFailureLeavesNoAnalysis == LoadFailed => NoAnalysis(context)

(***************************************************************************)
(* C20.  The analysis is a function of the cell table: any two calls of    *)
(* extract_all that loaded the same cells returned the same graph, the     *)
(* same calculation order, the same data flow and the same patterns.  The  *)
(* references of a formula are listed in the order of a set of strings,    *)
(* which is the order of their hashes and changes from one interpreter     *)
(* process to the next, and the edges and the calculation order follow     *)
(* that order: this formula is the claim, and TLC finds it violated.       *)
(***************************************************************************)
\* The analysis part of a returned context
AnalysisOf(c) == <<c.dependencies, c.calculation_order, c.data_flow, c.patterns>>

\* C20 as claimed, over the calls that have returned.
C20_AnalysisIsFunctionOfCells ==
    \A i, j \in 1..Len(returned) :
        returned[i].workbook = returned[j].workbook =>
            AnalysisOf(returned[i].context) = AnalysisOf(returned[j].context)

(***************************************************************************)
(* C21.  A formula that cannot be parsed gets an empty reference set and a *)
(* parse-warning flag in its formula info.  The info records the code      *)
(* builds hold raw_formula, depends_on, used_functions, complexity and     *)
(* length and nothing else, and the references are whatever the three      *)
(* patterns find in the text, parsable or not: this formula is the claim,  *)
(* and TLC finds it violated.                                              *)
(***************************************************************************)
\* The characters that join two operands
Operators == {"+", "-", "*", "/", "^", "&", "=", "<", ">", ","}

\* No formula of a spreadsheet: the parentheses do not pair up, a quote is
\* left open, or the text ends where an operand has to follow.
Unparsable(formula) ==
    \/ CountOf(formula, "(") # CountOf(formula, ")")
    \/ CountOf(formula, "'") % 2 = 1
    \/ formula[Len(formula)] \in Operators

\* C21 as claimed, on the formula table _extract_cell_formulas returns.
C21_ParseFailureFlagged ==
    FormulasJustReturned =>
        \A i \in 1..Len(building.cell_formulas) :
            LET info == building.cell_formulas[i]
            IN  Unparsable(info.raw_formula) =>
                    /\ info.depends_on = <<>>
                    /\ "parse_warning" \in DOMAIN info

(***************************************************************************)
(* C22.  Ranges are opaque: a range Coord:Coord written in a formula is    *)
(* one reference and gives one edge, to the address of the range; no cell  *)
(* inside the range, endpoint or member, becomes a target of the formula   *)
(* because of the range, so a cell inside it has the formula cell among    *)
(* its dependents only when the formula names that cell outside the range. *)
(***************************************************************************)
\* The letters in their order
Letters ==
    <<"A", "B", "C", "D", "E", "F", "G", "H", "I", "J", "K", "L", "M",
      "N", "O", "P", "Q", "R", "S", "T", "U", "V", "W", "X", "Y", "Z">>

\* The number of a column text: A is 1, Z is 26, AA is 27
RECURSIVE ColumnNumber(_)
ColumnNumber(col) ==
    IF col = <<>> THEN 0
    ELSE 26 * ColumnNumber(SubSeq(col, 1, Len(col) - 1))
            + (CHOOSE i \in 1..26 : Letters[i] = col[Len(col)])

\* n lies between a and b, whichever of the two is the larger
Between(n, a, b) == (a <= n /\ n <= b) \/ (b <= n /\ n <= a)

\* The cell at coordinate coord lies in the range range = first:last
InsideRange(coord, range) ==
    LET colon == IndexOf(range, ":", 1)
        first == Slice(range, 1, colon)
        last  == Slice(range, colon + 1, Len(range) + 1)
    IN  /\ Between(ColumnNumber(ColumnOf(coord)), ColumnNumber(ColumnOf(first)),
                   ColumnNumber(ColumnOf(last)))
        /\ Between(RowOf(coord), RowOf(first), RowOf(last))

\* Position q of text s lies inside a range of the text
InRangeText(s, q) ==
    \E p \in 1..q : Pattern2End(s, p) > 0 /\ q < Pattern2End(s, p)

\* The formula names the cell at address (<sheet>!<coordinate>) outside its
\* ranges: by the bare coordinate, or with the sheet in front of it
NamesOutsideRange(formula, address) ==
    \E q \in 1..Len(formula) :
        /\ ~InRangeText(formula, q)
        /\ \/ /\ Pattern1End(formula, q) > 0
              /\ Slice(formula, q, Pattern1End(formula, q)) = CoordinateOf(address)
           \/ /\ Pattern3End(formula, q) > 0
              /\ Pattern3Ref(formula, q) = address

\* The ranges written in the formula without a sheet in front of them
BareRanges(formula) ==
    {Slice(formula, p, Pattern2End(formula, p)) :
        p \in {q \in 1..Len(formula) : Pattern2End(formula, q) > 0 /\ ~At(formula, q - 1, {"!"})}}

\* The addresses of graph d that are <sheet>!<coordinate> of sheet
CellAddressesOn(d, sheet) ==
    {a \in AddressesOf(d) :
        /\ SheetOf(a) = sheet
        /\ Len(a) > Len(sheet) + 1
        /\ CoordEnd(a, Len(sheet) + 2) = Len(a) + 1}

\* C22: on the graph returned, for every range written in a formula that
\* _analyze_dependencies read.
C22_RangesOpaque ==
    GraphReturned =>
        \A i \in 1..Len(CellFormulasRead) :
            LET info  == CellFormulasRead[i]
                sheet == SheetOf(info.key)
            IN  \A range \in BareRanges(info.raw_formula) :
                    /\ Occurrences(info.depends_on, range) = 1
                    /\ DirectDepends(building.dependencies, info.key)
                          = NormalizedDeps(info.key, info.depends_on)
                    /\ InList(sheet \o <<"!">> \o range,
                              DirectDepends(building.dependencies, info.key))
                    /\ \A c \in CellAddressesOn(building.dependencies, sheet) :
                          InsideRange(CoordinateOf(c), range) =>
                              /\ InList(c, DirectDepends(building.dependencies, info.key))
                                    => NamesOutsideRange(info.raw_formula, c)
                              /\ InList(info.key, DependedBy(building.dependencies, c))
                                    => NamesOutsideRange(info.raw_formula, c)

\* C22 witness: A4 "=SUM(A1:A3)" has the one edge to Sh1!A1:A3, and the
\* formula cell A2 inside the range has A5, which names it, for its only
\* dependent
C22_Witness ==
    /\ GraphReturned
    /\ workbook = RangeWorkbook
    /\ DirectDepends(building.dependencies, Sheet1 \o <<"!", "A", "4">>)
          = <<Sheet1 \o <<"!", "A", "1", ":", "A", "3">>>>
    /\ DependedBy(building.dependencies, Sheet1 \o <<"!", "A", "2">>)
          = <<Sheet1 \o <<"!", "A", "5">>>>
    /\ DependedBy(building.dependencies, Sheet1 \o <<"!", "A", "1">>)
          = <<Sheet1 \o <<"!", "A", "2">>>>

(***************************************************************************)
(* C23.  A (sheet, column) group of fewer than three formula cells has no  *)
(* pattern, whatever its templates, and a pattern counts the formula cells *)
(* of its own sheet only: the same column letter on another sheet is       *)
(* another group.                                                          *)
(***************************************************************************)
\* The formula cells of the table read that are in column col of sheet
CellsOfGroup(sheet, col) ==
    {k \in ListToSet(Keys(CellFormulasRead)) :
        SheetOf(k) = sheet /\ ColumnOf(CoordinateOf(k)) = col}

\* The formula cells of the table read that are in column col of any sheet
CellsOfColumn(col) ==
    {k \in ListToSet(Keys(CellFormulasRead)) : ColumnOf(CoordinateOf(k)) = col}

\* C23: on the patterns returned.
C23_SmallGroupsHaveNoPattern ==
    PatternsReturned =>
        /\ \A g \in Groups :
              Cardinality(CellsOfGroup(g[1], g[2])) < 3 => PatternsFor(g) = <<>>
        /\ \A i \in 1..Len(building.patterns) :
              LET q == building.patterns[i]
              IN  /\ Cardinality(CellsOfGroup(q.sheet, q.column)) >= 3
                  /\ q.count = Cardinality(CellsOfGroup(q.sheet, q.column))
                  /\ q.rows = SeqOfSet({RowOf(CoordinateOf(k)) :
                                           k \in CellsOfGroup(q.sheet, q.column)})

\* C23 witness: column C holds two formulas "=A<row>*B<row>" on each of two
\* sheets, four formulas of one template in all, and no pattern is returned
C23_Witness ==
    /\ PatternsReturned
    /\ Cardinality(Groups) = 2
    /\ \A g \in Groups :
          /\ Cardinality(CellsOfGroup(g[1], g[2])) = 2
          /\ Cardinality(CellsOfColumn(g[2])) = 4
          /\ Cardinality(TemplatesOf(g)) = 1
    /\ building.patterns = <<>>

(***************************************************************************)
(* C24.  The traversal is iterative: it keeps its own stack and makes no   *)
(* native call per cell of a chain, so the depth of native calls does not  *)
(* grow with the chain.  In the code visit() calls itself for every        *)
(* reference (line 324), the frames of visit are the only stack there is   *)
(* and a chain of n cells puts n of them on the native call stack: this    *)
(* formula is the claim, and TLC finds it violated.                        *)
(***************************************************************************)
\* The number of calls of visit that are active
NativeDepth == Len(stack)

\* C24 as claimed: visit is never called from inside visit.
C24_NoNativeRecursion == pc = "visiting" => NativeDepth <= 1

(***************************************************************************)
(* C25.  Every bare coordinate that stands in a formula as a reference of  *)
(* its own is in the reference list, whatever else the formula refers to.  *)
(* The code drops a coordinate whose text is part of the text of any       *)
(* reference collected before it ("ref in r", line 248), so "=A10+A1"      *)
(* loses A1 while "=A1+A10" keeps both: this formula is the claim, and TLC *)
(* finds it violated.                                                      *)
(***************************************************************************)
\* A bare coordinate stands at s[q] as a reference of its own: a whole
\* token, without a sheet in front, outside every range, and not the name
\* of a function that is called
BareCoordinateAt(s, q) ==
    /\ Pattern1End(s, q) > 0
    /\ ~At(s, q - 1, {"!"})
    /\ ~InRangeText(s, q)
    /\ ~At(s, Pattern1End(s, q), {"("})

\* C25 as claimed, on the formula table _extract_cell_formulas returns.
C25_EveryBareCoordinateKept ==
    FormulasJustReturned =>
        \A i \in 1..Len(building.cell_formulas) :
            LET info == building.cell_formulas[i]
            IN  \A q \in 1..Len(info.raw_formula) :
                    BareCoordinateAt(info.raw_formula, q) =>
                        InList(Slice(info.raw_formula, q, Pattern1End(info.raw_formula, q)),
                               info.depends_on)

(***************************************************************************)
(* C26.  A reference with a sheet qualifier gives exactly one edge, to the *)
(* target on the named sheet, and no edge to the same coordinate or range  *)
(* on the sheet of the formula cell.  In the code pattern2 matches the     *)
(* range inside a qualified range once more, as a reference without a      *)
(* sheet, and the range is then qualified with the formula's own sheet:    *)
(* this formula is the claim, and TLC finds it violated.                   *)
(***************************************************************************)
\* The formula holds the coordinate or range text without a sheet in front
NamesBare(formula, text) ==
    \E q \in 1..Len(formula) :
        /\ OccursAt(formula, text, q)
        /\ WordBoundary(formula, q)
        /\ WordBoundary(formula, q + Len(text))
        /\ ~At(formula, q - 1, {"!", ":"})
        /\ ~At(formula, q + Len(text), {":"})

\* C26 as claimed, on the graph _analyze_dependencies returns.
C26_QualifiedReferenceOneEdge ==
    GraphReturned =>
        \A i \in 1..Len(CellFormulasRead) :
            LET info  == CellFormulasRead[i]
                edges == DirectDepends(building.dependencies, info.key)
            IN  \A t \in ListToSet(FindAll3(info.raw_formula, 1)) :
                    LET own == SheetOf(info.key) \o <<"!">> \o CoordinateOf(t)
                    IN  /\ Occurrences(edges, t) = 1
                        /\ (own # t /\ InList(own, edges))
                              => NamesBare(info.raw_formula, CoordinateOf(t))

(***************************************************************************)
(* C27.  When _determine_calculation_order has returned, no address is in  *)
(* the order twice and every formula cell of the formula table is in it,   *)
(* a formula without references and a formula nothing refers to included.  *)
(***************************************************************************)
\* C27: on the order returned.
C27_OrderHoldsEveryFormulaOnce ==
    OrderReturned =>
        /\ \A c \in FormulaCells : Occurrences(building.calculation_order, c) = 1
        /\ NoRepetition(building.calculation_order)

\* C27 witness: the order returned for three formula cells: one without
\* references that nothing refers to, one without references that another
\* refers to, and that other, which nothing refers to
C27_Witness ==
    /\ OrderReturned
    /\ Len(building.calculation_order) = 3
    /\ \E c \in FormulaCells : \E a \in FormulaCells : \E b \in FormulaCells :
          /\ DirectDepends(graph, c) = <<>>
          /\ DependedBy(graph, c) = <<>>
          /\ DirectDepends(graph, a) = <<b>>
          /\ DependedBy(graph, a) = <<>>
          /\ DirectDepends(graph, b) = <<>>
          /\ \A x \in {a, b, c} : InList(x, building.calculation_order)

(***************************************************************************)
(* C28.  The target of a cross-sheet reference is the address its cell is  *)
(* keyed under, also for a sheet name written in quotes: when the target   *)
(* is a formula cell, the referring cell is among its dependents, the      *)
(* target is classified calculation and it precedes the referring cell in  *)
(* the calculation order.  The code keeps the quotes in the reference      *)
(* (C12), so the edge of 'My Sheet'!B2 goes to an address no cell has:     *)
(* this formula is the claim, and TLC finds it violated.                   *)
(***************************************************************************)
\* The address <sheet>!<coordinate> that the cross-sheet reference t names:
\* t without the quotes around its sheet name
TargetOf(t) ==
    LET bang == Pattern3Bang(t, 1)
    IN  IF t[1] = "'" THEN Slice(t, 2, bang - 1) \o Slice(t, bang, Len(t) + 1)
        ELSE t

\* The first call of extract_all has built its whole analysis
FirstAnalysisBuilt == pc = "assign" /\ calls = 1

\* C28 as claimed, on the analysis of the first call.
C28_CrossSheetTargetIsCellKey ==
    FirstAnalysisBuilt =>
        \A i \in 1..Len(building.cell_formulas) :
            LET info == building.cell_formulas[i]
            IN  \A t \in ListToSet(FindAll3(info.raw_formula, 1)) :
                    (HasKey(building.cell_formulas, TargetOf(t)) /\ TargetOf(t) # info.key) =>
                        /\ InList(info.key, DependedBy(building.dependencies, TargetOf(t)))
                        /\ InList(TargetOf(t), StageList(2))
                        /\ Precedes(building.calculation_order, TargetOf(t), info.key)

(***************************************************************************)
(* C29.  Every context extract_all returns is consistent with its own cell *)
(* snapshot: its dependencies, calculation order, data flow and patterns   *)
(* are those of its own cell_formulas and cell_values.  From the second    *)
(* call on, the analysis methods find "cell_formulas", "dependencies" and  *)
(* "cell_values" in self.context, which is still the context of the        *)
(* earlier call, and analyse those: this formula is the claim, and TLC     *)
(* finds it violated.                                                      *)
(***************************************************************************)
\* The analysis in context c is the one of the cell tables in c
ConsistentWithOwnCells(c) ==
    /\ c.dependencies = _analyze_dependencies(c.cell_formulas)
    /\ ListToSet(c.calculation_order) = AddressesOf(c.dependencies)
    /\ c.data_flow = _analyze_data_flow(c.dependencies, c.cell_values)
    /\ c.patterns = _detect_patterns(c.cell_formulas)

\* C29 as claimed, over the calls that have returned.
C29_ContextConsistentWithOwnCells ==
    \A i \in 1..Len(returned) : ConsistentWithOwnCells(returned[i].context)

====
